---------------------------- MODULE Spec2Model ----------------------------
(***************************************************************************)
(* A model of the RAMSES frontend of yt:                                   *)
(*   yt/frontends/ramses/data_structures.py  (dataset, index, domain file, *)
(*                                            domain subset)               *)
(*   yt/frontends/ramses/field_handlers.py   (field file handlers)         *)
(*                                                                         *)
(* Seven specifications share the variables:                               *)
(*   Spec       dataset open and index construction (one domain reader     *)
(*              per selected domain: AMR header, field detection, octs)    *)
(*   SpecOffset the lazy offset / level_count index of one field handler   *)
(*   SpecFill   RAMSESDomainSubset.fill over one field file                *)
(*   SpecFillLive  the same, with the progress of the interpreter           *)
(*   SpecChunk  RAMSESIndex._identify_base_chunk                           *)
(*   SpecStats  RAMSESIndex._initialize_level_stats                         *)
(*   SpecDetect HydroFieldFileHandler.detect_fields                         *)
(***************************************************************************)
EXTENDS Integers, Sequences, FiniteSets, TLC

(***************************************************************************)
(* Bounds of the model.                                                    *)
(***************************************************************************)
MaxCpu == 2
MaxLevel == 2
MaxBoundary == 1
MaxOct == 1
MaxCache == 1
MaxNvar == 2
MaxDim == 2
MaxAccess == 3
MaxCells == 1
MaxDomains == 3
MaxCalls == 2
MaxDetectNvar == 12
MaxNames == 3

VARIABLES
    \* ---- dataset (RAMSESDataset)
    ordering,       \* rheader['ordering type']
    bbox,           \* ds._bbox : "None" or "box"
    ncpu,           \* rheader['ncpu'] == amr_header['ncpu']
    nlevelmax,      \* amr_header['nlevelmax']
    nboundary,      \* amr_header['nboundary']
    min_level,      \* ds.min_level
    kinds,          \* field kinds whose any_exist(ds) holds
    fieldcfg,       \* what hydro field detection reads: nvar, user list, descriptor
    dspc,           \* "new" | "parsed" | "failed"
    \* ---- index (RAMSESIndex)
    idxpc,          \* "none" | "building" | "ready" | "failed"
    error,          \* the exception that ended the run, "None" if none
    cpu_list,       \* the domains selected for construction (0-indexed)
    built,          \* domain readers the list comprehension has constructed
    domains,        \* self.domains, <<>> while the attribute is unset
    idx_max_level,  \* self.max_level of the index (-1: None)
    num_grids,      \* self.num_grids (-1: unset)
    cur,            \* the domain reader under construction
    \* ---- class-level / dataset-level attributes written by detect_fields
    cls_parameters, \* FH.parameters['nvar'] per kind (-1: unset)
    cls_field_list, \* FH.field_list per kind
    ds_gamma,       \* ds.gamma was replaced on hydro file open
    \* ---- bookkeeping of the environment
    files,          \* kinds of file opened so far
    unreleased,     \* handles still open although the operation that opened them ended
    detectCalls,    \* per kind: number of detect_fields calls
    clsWriters,     \* domain ids whose construction wrote class/dataset attributes
    \* ---- one field handler (FieldFileHandler) and its lazily computed index
    ndim,           \* ds.dimensionality
    h_domain_id,    \* self.domain_id of the handler
    h_offset,       \* self._offset       (isNone: the attribute is unset)
    h_level_count,  \* self._level_count  (isNone: the attribute is unset)
    scan,           \* the offset scan under way: loop position, local arrays, stream
    opens,          \* open() calls made by the current (or last) property access
    recordsRead,    \* records read or skipped by the current (or last) access
    ret,            \* what the last access to offset / level_count returned
    first,          \* what the first successful access returned, and which it was
    accesses,       \* number of property accesses made
    \* ---- one call of RAMSESDomainSubset.fill
    fill,           \* its arguments, loop position, stream position and results
    \* ---- the calls of RAMSESIndex._identify_base_chunk on one data object
    chunk,          \* the selector, dobj._chunk_info, dobj._current_chunk, the loop
    \* ---- one call of RAMSESIndex._initialize_level_stats
    stats           \* the handlers' counts, the loops, level_stats

idxVars == << ordering, bbox, ncpu, nlevelmax, nboundary, min_level, kinds, fieldcfg,
              dspc, idxpc, error, cpu_list, built, domains, idx_max_level, num_grids,
              cur, cls_parameters, cls_field_list, ds_gamma, files, unreleased,
              detectCalls, clsWriters >>

offVars == << ndim, h_domain_id, h_offset, h_level_count, scan, opens, recordsRead,
              ret, first, accesses >>

fillVars == << fill >>

chunkVars == << chunk >>

statsVars == << stats >>

vars == << idxVars, offVars, fillVars, chunkVars, statsVars >>


(***************************************************************************)
(* Values and helpers.                                                     *)
(***************************************************************************)
None == "None"

\* numpy: a[lo:hi].sum() of one column c of the numbl table
RECURSIVE ColumnSum(_, _, _, _)
ColumnSum(numbl, c, lo, hi) ==
    IF lo >= hi THEN 0 ELSE numbl[lo][c] + ColumnSum(numbl, c, lo + 1, hi)

\* numbl[l, :].sum(): one row of the table over the cpus 0..n-1
RECURSIVE RowSum(_, _, _)
RowSum(row, c, n) ==
    IF c >= n THEN 0 ELSE row[c] + RowSum(row, c + 1, n)

\* sum(dom.local_oct_count for dom in self.domains)
RECURSIVE SumLocal(_)
SumLocal(ds) ==
    IF ds = <<>> THEN 0 ELSE Head(ds).local_oct_count + SumLocal(Tail(ds))

\* max(dom.max_level for dom in self.domains)
RECURSIVE MaxOfLevels(_)
MaxOfLevels(ds) ==
    IF Len(ds) = 1 THEN Head(ds).max_level
    ELSE LET m == MaxOfLevels(Tail(ds))
         IN  IF Head(ds).max_level > m THEN Head(ds).max_level ELSE m

\* range(n) as a sequence 0, 1, ..., n-1
Range0(n) == [i \in 1..n |-> i - 1]

\* the increasing sequence of the elements of a set of integers
RECURSIVE SortedSeq(_)
SortedSeq(S) ==
    IF S = {} THEN <<>>
    ELSE LET m == CHOOSE x \in S : \A y \in S : x <= y
         IN  <<m>> \o SortedSeq(S \ {m})

(***************************************************************************)
(* Field handlers (field_handlers.py).                                     *)
(***************************************************************************)
\* FIELD_HANDLERS: the registered kinds, in the iteration order of the set
KindOrder == << "ramses", "ramses-rt" >>

\* [FH(self) for FH in get_field_handlers() if FH.any_exist(ds)]
FieldHandlers(ks) == SelectSeq(KindOrder, LAMBDA k : k \in ks)

\* the fallback tables of HydroFieldFileHandler.detect_fields (nvar >= 5 or rt)
HydroFallback(nvar, rt) ==
    IF rt
    THEN IF nvar < 10
         THEN << "Density", "x-velocity", "y-velocity", "z-velocity", "Pressure",
                 "Metallicity", "HII", "HeII", "HeIII" >>
         ELSE << "Density", "x-velocity", "y-velocity", "z-velocity", "Pres_IR",
                 "Pressure", "Metallicity", "HII", "HeII", "HeIII" >>
    ELSE IF nvar = 5
         THEN << "Density", "x-velocity", "y-velocity", "z-velocity", "Pressure" >>
         ELSE IF nvar > 5 /\ nvar < 11
         THEN << "Density", "x-velocity", "y-velocity", "z-velocity",
                 "Pressure", "Metallicity" >>
         ELSE IF nvar = 11
         THEN << "Density", "x-velocity", "y-velocity", "z-velocity",
                 "x-Bfield-left", "y-Bfield-left", "z-Bfield-left",
                 "x-Bfield-right", "y-Bfield-right", "z-Bfield-right",
                 "Pressure" >>
         ELSE << "Density", "x-velocity", "y-velocity", "z-velocity",
                 "x-Bfield-left", "y-Bfield-left", "z-Bfield-left",
                 "x-Bfield-right", "y-Bfield-right", "z-Bfield-right",
                 "Pressure", "Metallicity" >>

\* while len(fields) < nvar: fields.append("var" + str(len(fields)))
RECURSIVE PadFields(_, _)
PadFields(fields, nvar) ==
    IF Len(fields) < nvar
    THEN PadFields(Append(fields, "var" \o ToString(Len(fields))), nvar)
    ELSE fields

\* ok after the user list / descriptor branches
NamesGiven(cfg) ==
    \/ cfg.userGiven
    \/ (cfg.descExists /\ Len(cfg.desc) > 0)

\* the fallback branch raises ValueError
HydroDetectRaises(cfg, rt) == ~NamesGiven(cfg) /\ ~rt /\ cfg.nvar < 5

\* the names detect_fields returns when it does not raise
HydroDetectFields(cfg, rt) ==
    LET fields == IF cfg.userGiven THEN cfg.user
                  ELSE IF cfg.descExists /\ Len(cfg.desc) > 0 THEN cfg.desc
                  ELSE HydroFallback(cfg.nvar, rt)
    IN  PadFields(fields, cfg.nvar)

\* RTFieldFileHandler.detect_fields: four names per photon group
RECURSIVE RTDetectFields(_)
RTDetectFields(ngroups) ==
    IF ngroups = 0 THEN <<>>
    ELSE RTDetectFields(ngroups - 1) \o
         << "Photon_density_" \o ToString(ngroups), "Photon_flux_x_" \o ToString(ngroups),
            "Photon_flux_y_" \o ToString(ngroups), "Photon_flux_z_" \o ToString(ngroups) >>

(***************************************************************************)
(* File handles.  An operation that opens a file either closes it itself   *)
(* (a with block, an explicit close) or leaves the file object to the      *)
(* garbage collector, which closes it at some later moment of its own      *)
(* choosing (Collect).                                                     *)
(***************************************************************************)
\* does the code of operation op close its handle before it ends?
ClosesHandle(op, raised) ==
    CASE op = "offset"         -> TRUE          \* with open(...) as f
      [] op = "detect_rt"      -> TRUE          \* with open(...) as f
      [] op = "parameter_file" -> ~raised       \* f.close() after the raise
      [] OTHER                 -> FALSE         \* f = open(...), never closed

AfterOp(unrel, op, raised) ==
    IF ClosesHandle(op, raised) THEN unrel ELSE unrel \cup {op}


(***************************************************************************)
(* The dataset: RAMSESDataset._parse_parameter_file.                       *)
(***************************************************************************)
dsVars == << ordering, bbox, ncpu, nlevelmax, nboundary, min_level, kinds, fieldcfg >>

\* the variables the dataset open and the index construction do not touch
otherVars == << offVars, fillVars, chunkVars, statsVars >>

\* Python truth value of ds._bbox (None, or a non-empty list of edges)
Truthy(b) == b # None

\* mutant: the bounding-box test negated (... and not self._bbox)
OrderingIncompatibleNoBox(o, b) == o # "hilbert" /\ ~Truthy(b)

\* if rheader['ordering type'] != 'hilbert' and self._bbox: raise
OrderingIncompatible(o, b) == o # "hilbert" /\ Truthy(b)

ParseParameterFile ==
    /\ dspc = "new"
    /\ ~OrderingIncompatible(ordering, bbox)
    /\ files' = files \cup {"info"}
    /\ dspc' = "parsed"
    /\ unreleased' = AfterOp(unreleased, "parameter_file", FALSE)
    /\ UNCHANGED << otherVars, dsVars, idxpc, error, cpu_list, built, domains, idx_max_level,
                    num_grids, cur, cls_parameters, cls_field_list, ds_gamma,
                    detectCalls, clsWriters >>

ParseParameterFileRaise ==
    /\ dspc = "new"
    /\ OrderingIncompatible(ordering, bbox)
    /\ files' = files \cup {"info"}
    /\ dspc' = "failed"
    /\ error' = "NotImplementedError"
    /\ unreleased' = AfterOp(unreleased, "parameter_file", TRUE)
    /\ UNCHANGED << otherVars, dsVars, idxpc, cpu_list, built, domains, idx_max_level,
                    num_grids, cur, cls_parameters, cls_field_list, ds_gamma,
                    detectCalls, clsWriters >>

(***************************************************************************)
(* The index: RAMSESIndex._initialize_oct_handler.                         *)
(***************************************************************************)
\* hilbert.get_cpu_list(ds, bbox): the ordered ids of the domains whose key
\* range can intersect the box
GetCpuList(n) == { SortedSeq(S) : S \in (SUBSET (0..(n - 1))) \ {{}} }

NoOct == [state |-> "none", num_domains |-> 0, root_nodes |-> 0, adds |-> 0,
          finalizeCalls |-> 0, addsAfterFinalize |-> 0, finalizedAt |-> << -1, -1 >>]

\* no oct_handler.add call yet
NoAdd == [level |-> -1, cpu |-> -1, ng |-> 0, n |-> 0]

NoDomain == [domain_id |-> 0, pc |-> "none", numbl |-> <<>>, ngridbound |-> <<>>,
             local_oct_count |-> 0, total_oct_count |-> <<>>, fh |-> 1,
             level |-> 0, cpu |-> 0, max_level_loop |-> 0, max_level |-> -1,
             oct |-> NoOct, last |-> NoAdd, inserted |-> {}]

\* what the index keeps of a constructed domain reader
Reader(d) == [domain_id |-> d.domain_id, local_oct_count |-> d.local_oct_count,
              max_level |-> d.max_level,
              oct |-> [state |-> d.oct.state, finalizeCalls |-> d.oct.finalizeCalls,
                       addsAfterFinalize |-> d.oct.addsAfterFinalize,
                       finalizedAt |-> d.oct.finalizedAt],
              field_handlers |-> FieldHandlers(kinds)]

InitializeOctHandler ==
    /\ dspc = "parsed"
    /\ idxpc = "none"
    /\ cpu_list' \in (IF bbox # None THEN GetCpuList(ncpu) ELSE {Range0(ncpu)})
    /\ idxpc' = "building"
    /\ UNCHANGED << otherVars, dsVars, dspc, error, built, domains, idx_max_level, num_grids, cur,
                    cls_parameters, cls_field_list, ds_gamma, files, unreleased,
                    detectCalls, clsWriters >>

\* mutant: the exception is swallowed and the half-built reader is kept
RaiseSwallowed(e) ==
    /\ idxpc' = idxpc
    /\ error' = e
    /\ built' = Append(built, Reader(cur))
    /\ cur' = NoDomain
    /\ UNCHANGED << domains, idx_max_level, num_grids >>

\* an exception raised while a domain reader is constructed leaves the list
\* comprehension: self.domains is never assigned, the reader is dropped
RaiseFromDomain(e) ==
    /\ idxpc' = "failed"
    /\ error' = e
    /\ cur' = [cur EXCEPT !.pc = "raised"]
    /\ UNCHANGED << built, domains, idx_max_level, num_grids >>

FinishIndex ==
    /\ idxpc = "building"
    /\ cur.pc = "none"
    /\ Len(built) = Len(cpu_list)
    /\ domains' = built
    /\ num_grids' = SumLocal(built)
    /\ idx_max_level' = MaxOfLevels(built)
    /\ idxpc' = "ready"
    /\ UNCHANGED << otherVars, dsVars, dspc, error, cpu_list, built, cur, cls_parameters,
                    cls_field_list, ds_gamma, files, unreleased, detectCalls,
                    clsWriters >>

\* the garbage collector closes the files nothing refers to any more
Collect ==
    /\ unreleased # {}
    /\ unreleased' = {}
    /\ UNCHANGED << otherVars, dsVars, dspc, idxpc, error, cpu_list, built, domains, idx_max_level,
                    num_grids, cur, cls_parameters, cls_field_list, ds_gamma, files,
                    detectCalls, clsWriters >>


(***************************************************************************)
(* A domain reader: RAMSESDomainFile.__init__, _read_amr_header, _read_amr *)
(* and _error_check.                                                       *)
(***************************************************************************)
\* the numbl tables an AMR header can hold, indexed [level][cpu]
Tables(nl, nc) == [0..(nl - 1) -> [0..(nc - 1) -> 0..MaxOct]]

\* self.ngridbound: read from the file when there are boundaries, else zeros
BoundVectors(nl, nb) ==
    IF nb > 0 THEN [0..(nb * nl - 1) -> 0..MaxOct]
    ELSE { [i \in 0..(nl - 1) |-> 0] }

\* hvals['numbl'][self.ds.min_level:, self.domain_id - 1].sum()
LocalOctCount(numbl, dom) == ColumnSum(numbl, dom - 1, min_level, nlevelmax)

\* mutant: the sum runs over all the levels of the table
TotalOctCountAllLevels(numbl) ==
    [c \in 0..(ncpu - 1) |-> ColumnSum(numbl, c, 0, nlevelmax)]

\* hvals['numbl'][self.ds.min_level:, :].sum(axis=0)
TotalOctCount(numbl) ==
    [c \in 0..(ncpu - 1) |-> ColumnSum(numbl, c, min_level, nlevelmax)]

\* where construction goes once handler number fh - 1 has detected its fields
AfterHandler(fh) == IF fh > Len(FieldHandlers(kinds)) THEN "amr_open" ELSE "fields"

\* __init__ up to and including _read_amr_header
ReadAmrHeader ==
    /\ idxpc = "building"
    /\ cur.pc = "none"
    /\ Len(built) < Len(cpu_list)
    /\ \E t \in Tables(nlevelmax, ncpu), g \in BoundVectors(nlevelmax, nboundary) :
          LET dom == cpu_list[Len(built) + 1] + 1
          IN  cur' = [NoDomain EXCEPT !.domain_id = dom,
                                      !.pc = AfterHandler(1),
                                      !.numbl = t,
                                      !.ngridbound = g,
                                      !.local_oct_count = LocalOctCount(t, dom),
                                      !.total_oct_count = TotalOctCount(t)]
    /\ files' = files \cup {"amr"}
    /\ unreleased' = AfterOp(unreleased, "amr_header", FALSE)
    /\ UNCHANGED << otherVars, dsVars, dspc, idxpc, error, cpu_list, built, domains, idx_max_level,
                    num_grids, cls_parameters, cls_field_list, ds_gamma, detectCalls,
                    clsWriters >>

\* a record of the header whose two length markers disagree
ReadAmrHeaderCorrupt ==
    /\ idxpc = "building"
    /\ cur.pc = "none"
    /\ Len(built) < Len(cpu_list)
    /\ idxpc' = "failed"
    /\ error' = "CorruptRecordError"
    /\ cur' = [NoDomain EXCEPT !.domain_id = cpu_list[Len(built) + 1] + 1,
                               !.pc = "raised"]
    /\ files' = files \cup {"amr"}
    /\ unreleased' = AfterOp(unreleased, "amr_header", TRUE)
    /\ UNCHANGED << otherVars, dsVars, dspc, cpu_list, built, domains, idx_max_level,
                    num_grids, cls_parameters, cls_field_list, ds_gamma, detectCalls,
                    clsWriters >>

\* fh.detect_fields(ds) of the hydro handler: a classmethod, it reads the file of
\* domain 1 and writes the class attributes and ds.gamma
DetectHydroFields ==
    /\ idxpc = "building"
    /\ cur.pc = "fields"
    /\ FieldHandlers(kinds)[cur.fh] = "ramses"
    /\ files' = files \cup {"hydro"}
    /\ unreleased' = AfterOp(unreleased, "detect_hydro", HydroDetectRaises(fieldcfg, fieldcfg.rt))
    /\ cls_parameters' = [cls_parameters EXCEPT !["ramses"] = fieldcfg.nvar]
    /\ ds_gamma' = TRUE
    /\ detectCalls' = [detectCalls EXCEPT !["ramses"] = @ + 1]
    /\ clsWriters' = clsWriters \cup {cur.domain_id}
    /\ IF HydroDetectRaises(fieldcfg, fieldcfg.rt)
       THEN /\ RaiseFromDomain("ValueError")
            /\ UNCHANGED cls_field_list
       ELSE /\ cls_field_list' = [cls_field_list EXCEPT
                                    !["ramses"] = HydroDetectFields(fieldcfg, fieldcfg.rt)]
            /\ cur' = [cur EXCEPT !.fh = @ + 1, !.pc = AfterHandler(cur.fh + 1)]
            /\ UNCHANGED << idxpc, error, built, domains, idx_max_level, num_grids >>
    /\ UNCHANGED << otherVars, dsVars, dspc, cpu_list >>

\* fh.detect_fields(ds) of the RT handler: info_rt and the rt file of domain 1,
\* both opened in a with block
DetectRTFields ==
    /\ idxpc = "building"
    /\ cur.pc = "fields"
    /\ FieldHandlers(kinds)[cur.fh] = "ramses-rt"
    /\ files' = files \cup {"info_rt", "rt"}
    /\ unreleased' = AfterOp(unreleased, "detect_rt", FALSE)
    /\ cls_parameters' = [cls_parameters EXCEPT !["ramses-rt"] = fieldcfg.rtnvar]
    /\ cls_field_list' = [cls_field_list EXCEPT
                            !["ramses-rt"] = RTDetectFields(fieldcfg.ngroups)]
    /\ detectCalls' = [detectCalls EXCEPT !["ramses-rt"] = @ + 1]
    /\ clsWriters' = clsWriters \cup {cur.domain_id}
    /\ cur' = [cur EXCEPT !.fh = @ + 1, !.pc = AfterHandler(cur.fh + 1)]
    /\ UNCHANGED << otherVars, dsVars, dspc, idxpc, error, cpu_list, built, domains, idx_max_level,
                    num_grids, ds_gamma >>

\* RAMSESOctreeContainer(...).allocate_domains(total_oct_count, root_nodes): the
\* container tracks one domain per entry of the counts it is given
AllocateDomains(counts, roots) ==
    [NoOct EXCEPT !.state = "allocated",
                  !.num_domains = Cardinality(DOMAIN counts),
                  !.root_nodes = roots]

\* _read_amr up to the level loop
ReadAmrOpen ==
    /\ idxpc = "building"
    /\ cur.pc = "amr_open"
    /\ cur' = [cur EXCEPT !.pc = "amr",
                          !.oct = AllocateDomains(cur.total_oct_count,
                                                  RowSum(cur.numbl[min_level], 0, ncpu)),
                          !.level = 0, !.cpu = 0, !.max_level_loop = 0]
    /\ files' = files \cup {"amr"}
    /\ UNCHANGED << otherVars, dsVars, dspc, idxpc, error, cpu_list, built, domains, idx_max_level,
                    num_grids, cls_parameters, cls_field_list, ds_gamma, unreleased,
                    detectCalls, clsWriters >>

\* def _ng(c, l)
Ng(d, c, l) ==
    IF c < ncpu THEN d.numbl[l][c]
    ELSE d.ngridbound[c - ncpu + nboundary * l]

\* the loop variables after one more iteration of the cpu loop
NextBlock(d) ==
    IF d.cpu + 1 < nboundary + ncpu
    THEN [d EXCEPT !.cpu = @ + 1]
    ELSE [d EXCEPT !.cpu = 0, !.level = @ + 1]

InAmrLoop == idxpc = "building" /\ cur.pc = "amr" /\ cur.level < nlevelmax

\* if ng == 0: continue
AmrNoRecord ==
    /\ InAmrLoop
    /\ Ng(cur, cur.cpu, cur.level) = 0
    /\ cur' = NextBlock(cur)
    /\ UNCHANGED << otherVars, dsVars, dspc, idxpc, error, cpu_list, built, domains, idx_max_level,
                    num_grids, cls_parameters, cls_field_list, ds_gamma, files,
                    unreleased, detectCalls, clsWriters >>

\* one of the block's records has length markers that disagree
AmrCorruptRecord ==
    /\ InAmrLoop
    /\ Ng(cur, cur.cpu, cur.level) > 0
    /\ RaiseFromDomain("CorruptRecordError")
    /\ unreleased' = AfterOp(unreleased, "amr", TRUE)
    /\ UNCHANGED << otherVars, dsVars, dspc, cpu_list, cls_parameters, cls_field_list, ds_gamma,
                    files, detectCalls, clsWriters >>

\* the block is read and skipped, level < min_level: nothing is inserted
AmrBelowMinLevel ==
    /\ InAmrLoop
    /\ Ng(cur, cur.cpu, cur.level) > 0
    /\ cur.level < min_level
    /\ cur' = NextBlock(cur)
    /\ UNCHANGED << otherVars, dsVars, dspc, idxpc, error, cpu_list, built, domains, idx_max_level,
                    num_grids, cls_parameters, cls_field_list, ds_gamma, files,
                    unreleased, detectCalls, clsWriters >>

\* mutant: the test of the domain count is missing
ErrorCheckCountOnly(cpu, n, ng, num_domains) == n = ng

\* _error_check: if n == ng or cpu + 1 > self.oct_handler.num_domains: return
ErrorCheckPasses(cpu, n, ng, num_domains) == n = ng \/ cpu + 1 > num_domains

\* oct_handler.add(cpu + 1, level - min_level, pos, count_boundary = 1)
OctAdd(oct) ==
    [oct EXCEPT !.adds = @ + 1,
                !.addsAfterFinalize = IF oct.state = "finalized" THEN @ + 1 ELSE @]

\* mutant: the insertion count is not looked at
MaxLevelAnyCount(n, level, max_level) ==
    IF level - min_level > max_level THEN level - min_level ELSE max_level

\* if n > 0: max_level = max(level - min_level, max_level)
MaxLevelAfter(n, level, max_level) ==
    IF n > 0 /\ level - min_level > max_level THEN level - min_level ELSE max_level

\* the arguments and the result of the add call of this block
LastAdd(d, ng, n) == [level |-> d.level, cpu |-> d.cpu, ng |-> ng, n |-> n]

\* the block is read, its octs are added, the insertion count is checked
AmrAdd ==
    /\ InAmrLoop
    /\ cur.level >= min_level
    /\ LET ng == Ng(cur, cur.cpu, cur.level)
       IN  /\ ng > 0
           /\ \E n \in 0..ng :
                /\ IF ErrorCheckPasses(cur.cpu, n, ng, cur.oct.num_domains)
                   THEN /\ cur' = [NextBlock(cur) EXCEPT
                                     !.oct = OctAdd(cur.oct),
                                     !.last = LastAdd(cur, ng, n),
                                     !.inserted = IF n > 0
                                                  THEN @ \cup {cur.level - min_level}
                                                  ELSE @,
                                     !.max_level_loop =
                                         MaxLevelAfter(n, cur.level, cur.max_level_loop)]
                        /\ UNCHANGED << idxpc, error, built, domains, idx_max_level,
                                        num_grids, unreleased >>
                   ELSE /\ idxpc' = "failed"
                        /\ error' = "RuntimeError"
                        /\ cur' = [cur EXCEPT !.pc = "raised", !.oct = OctAdd(cur.oct),
                                               !.last = LastAdd(cur, ng, n)]
                        /\ unreleased' = AfterOp(unreleased, "amr", TRUE)
                        /\ UNCHANGED << built, domains, idx_max_level, num_grids >>
    /\ UNCHANGED << otherVars, dsVars, dspc, cpu_list, cls_parameters, cls_field_list, ds_gamma,
                    files, detectCalls, clsWriters >>

\* mutant: finalize is not called
FinalizeSkipped(oct, level, cpu) == oct

\* self.oct_handler.finalize()
Finalize(oct, level, cpu) ==
    [oct EXCEPT !.state = "finalized", !.finalizeCalls = @ + 1,
                !.finalizedAt = << level, cpu >>]

\* after the level loop: self.max_level = max_level; finalize; the reader is built
AmrFinish ==
    /\ idxpc = "building"
    /\ cur.pc = "amr"
    /\ cur.level = nlevelmax
    /\ built' = Append(built, Reader([cur EXCEPT
                                        !.max_level = cur.max_level_loop,
                                        !.oct = Finalize(cur.oct, cur.level, cur.cpu)]))
    /\ cur' = NoDomain
    /\ unreleased' = AfterOp(unreleased, "amr", FALSE)
    /\ UNCHANGED << otherVars, dsVars, dspc, idxpc, error, cpu_list, domains, idx_max_level,
                    num_grids, cls_parameters, cls_field_list, ds_gamma, files,
                    detectCalls, clsWriters >>


(***************************************************************************)
(* FieldFileHandler.offset and FieldFileHandler.level_count.               *)
(***************************************************************************)
\* an attribute holding None, and one holding the array a
NoneArr == [isNone |-> TRUE, arr |-> <<>>]
Arr(a) == [isNone |-> FALSE, arr |-> a]

\* no block header read yet
NoBlock == [level |-> -1, cpu |-> -1, ilevel |-> 0, ncache |-> 0, at |-> 0,
            skipped |-> 0, recorded |-> FALSE]

NoScan == [pc |-> "idle", what |-> "offset", level |-> 0, cpu |-> 0, offset |-> <<>>,
           level_count |-> <<>>, pos |-> 0, handle |-> "closed", last |-> NoBlock,
           writes |-> <<>>]

\* no fill call
NoFill == [pc |-> "none", fields |-> <<>>, cell_count |-> 0, tr |-> <<>>, level |-> 0,
           i |-> 0, j |-> 1, pos |-> 0, log |-> <<>>, calls |-> <<>>]

\* no data object
NoChunk == [pc |-> "none", selector |-> [has_domain_id |-> FALSE, domain_id |-> 0,
                                         hits |-> {}],
            chunk_info |-> NoneArr, current_chunk |-> NoneArr, i |-> 1,
            kept |-> <<>>, calls |-> 0]

\* no level statistics asked for
NoStats == [pc |-> "none", counts |-> <<>>, d |-> 1, fh |-> 1, lvl_count |-> NoneArr,
            dom_level_count |-> <<>>, levels |-> <<>>, level_stats |-> <<>>]

\* no handler is asked for its offsets
HandlerIdle ==
    /\ h_domain_id = 0
    /\ h_offset = NoneArr
    /\ h_level_count = NoneArr
    /\ scan = NoScan
    /\ opens = 0
    /\ recordsRead = 0
    /\ ret = [what |-> "none", val |-> NoneArr]
    /\ first = [offset |-> NoneArr, level_count |-> NoneArr, at |-> 0]
    /\ accesses = 0

\* the handler variables while no handler is modelled
OffIdle ==
    /\ ndim = 3
    /\ HandlerIdle

\* 2**n
RECURSIVE Pow2(_)
Pow2(n) == IF n = 0 THEN 1 ELSE 2 * Pow2(n - 1)

\* the bytes of one framed record of n elements of the given width: a 4-byte
\* length marker before and after the payload
RecordBytes(n, width) == 4 + n * width + 4

\* len(self.attrs) of the hydro / RT handlers: ncpu, nvar, ndim, nlevelmax,
\* nboundary (integers) and gamma (a double)
HeaderRecords == 6
HeaderBytes == 5 * RecordBytes(1, 4) + RecordBytes(1, 8)

\* fpu.read_attrs(f, (('file_ilevel', 1, 'I'), ('file_ncache', 1, 'I')))
BlockHeaderRecords == 2
BlockHeaderBytes == 2 * RecordBytes(1, 4)

\* fpu.skip(f, 2**ndim * nvar) over the vectors of a block of ncache cells
PayloadRecords(nvar) == Pow2(ndim) * nvar
PayloadBytes(nvar, ncache) == PayloadRecords(nvar) * RecordBytes(ncache, 8)

\* self.parameters['nvar']
Nvar == cls_parameters["ramses"]

\* mutant: the cached value is never used
CacheNever(attr) == FALSE

\* getattr(self, '_offset', None) is not None
CacheHit(attr) == ~attr.isNone

\* an access to the properties comes from the caller of the handler, or from
\* the fill call at the head of its level loop; none comes while fill is elsewhere
Accessible == fill.pc \in {"none", "offsets"}

\* the variables of the index construction that the handler leaves alone
idxRest == << dspc, idxpc, cpu_list, built, domains, idx_max_level, num_grids, cur,
              cls_parameters, cls_field_list, ds_gamma, files, detectCalls, clsWriters >>

\* offset: the attribute is set, it is returned
AccessOffsetCached ==
    /\ scan.pc = "idle"
    /\ accesses < MaxAccess
    /\ CacheHit(h_offset)
    /\ ret' = [what |-> "offset", val |-> h_offset]
    /\ accesses' = accesses + 1
    /\ opens' = 0
    /\ recordsRead' = 0
    /\ UNCHANGED << dsVars, idxRest, error, unreleased, ndim, h_domain_id, h_offset,
                    h_level_count, scan, first, fillVars, chunkVars, statsVars >>

\* level_count: self._level_count is set, or self.offset returns at once
AccessLevelCountCached ==
    /\ scan.pc = "idle"
    /\ accesses < MaxAccess
    /\ CacheHit(h_level_count) \/ CacheHit(h_offset)
    /\ ret' = [what |-> "level_count", val |-> h_level_count]
    /\ accesses' = accesses + 1
    /\ opens' = 0
    /\ recordsRead' = 0
    /\ UNCHANGED << dsVars, idxRest, error, unreleased, ndim, h_domain_id, h_offset,
                    h_level_count, scan, first, fillVars, chunkVars, statsVars >>

\* offset (directly, or from level_count): nothing cached, the file is opened, the
\* header skipped and the local arrays are set up
OffsetOpen ==
    /\ scan.pc = "idle"
    /\ accesses < MaxAccess
    /\ Accessible
    /\ ~CacheHit(h_offset)
    /\ \E what \in {"offset", "level_count"} :
          /\ what = "level_count" => (~CacheHit(h_level_count) /\ fill.pc = "none")
          /\ scan' = [pc |-> "scanning", what |-> what, level |-> 0, cpu |-> 0,
                      offset |-> [i \in 1..(nlevelmax - min_level) |-> -1],
                      level_count |-> [i \in 1..(nlevelmax - min_level) |-> 0],
                      pos |-> HeaderBytes, handle |-> "open", last |-> NoBlock,
                      writes |-> [i \in 1..(nlevelmax - min_level) |-> 0]]
    /\ opens' = 1
    /\ recordsRead' = HeaderRecords
    /\ accesses' = accesses + 1
    /\ error' = None
    /\ ret' = [what |-> "none", val |-> NoneArr]
    /\ UNCHANGED << dsVars, idxRest, unreleased, ndim, h_domain_id, h_offset,
                    h_level_count, first, fillVars, chunkVars, statsVars >>

\* the loop variables of the scan after one more iteration of the cpu loop
NextScan(sc) ==
    IF sc.cpu + 1 < nboundary + ncpu
    THEN [sc EXCEPT !.cpu = @ + 1]
    ELSE [sc EXCEPT !.cpu = 0, !.level = @ + 1]

InScan == scan.pc = "scanning" /\ scan.level < nlevelmax

\* the level numbers a block header can hold
FileLevels == 1..MaxLevel

\* what the scan keeps of the block whose header it has just read
Block(sc, ilevel, ncache, skipped, recorded) ==
    [level |-> sc.level, cpu |-> sc.cpu, ilevel |-> ilevel, ncache |-> ncache,
     at |-> sc.pos + BlockHeaderBytes, skipped |-> skipped, recorded |-> recorded]

\* mutant: no block is taken for empty
EmptyBlockNever(ncache) == FALSE

\* if hvals['file_ncache'] == 0
EmptyBlock(ncache) == ncache = 0

\* if hvals['file_ncache'] == 0: continue
OffsetBlockEmpty ==
    /\ InScan
    /\ \E ilevel \in FileLevels, ncache \in 0..MaxCache :
          /\ EmptyBlock(ncache)
          /\ scan' = [NextScan(scan) EXCEPT !.pos = @ + BlockHeaderBytes,
                                            !.last = Block(scan, ilevel, ncache, 0, FALSE)]
    /\ recordsRead' = recordsRead + BlockHeaderRecords
    /\ UNCHANGED << dsVars, idxRest, error, unreleased, ndim, h_domain_id, h_offset,
                    h_level_count, opens, ret, first, accesses, fillVars, chunkVars, statsVars >>

\* mutant: the arrays filled so far are stored when the scan is aborted
OffsetRaiseStoring(e, block) ==
    /\ scan' = [NoScan EXCEPT !.last = block]
    /\ error' = e
    /\ unreleased' = AfterOp(unreleased, "offset", TRUE)
    /\ fill' = IF fill.pc = "offsets" THEN [fill EXCEPT !.pc = "raised"] ELSE fill
    /\ h_offset' = Arr(scan.offset)
    /\ h_level_count' = Arr(scan.level_count)
    /\ UNCHANGED << ret, first >>

\* an exception leaves the with block (the file is closed) and the property,
\* and a fill call that asked for the offsets with it
OffsetRaise(e, block) ==
    /\ scan' = [NoScan EXCEPT !.last = block]
    /\ error' = e
    /\ unreleased' = AfterOp(unreleased, "offset", TRUE)
    /\ fill' = IF fill.pc = "offsets" THEN [fill EXCEPT !.pc = "raised"] ELSE fill
    /\ UNCHANGED << h_offset, h_level_count, ret, first >>

\* mutant: the level number of a block is not looked at
LevelCheckSkipped(ilevel, level) == TRUE

\* assert(hvals['file_ilevel'] == level+1)
LevelCheckPasses(ilevel, level) == ilevel = level + 1

\* assert(hvals['file_ilevel'] == level + 1) fails on a block with cells
OffsetBlockLevelMismatch ==
    /\ InScan
    /\ \E ilevel \in FileLevels, ncache \in 0..MaxCache :
          /\ ~EmptyBlock(ncache)
          /\ ~LevelCheckPasses(ilevel, scan.level)
          /\ OffsetRaise("AssertionError", Block(scan, ilevel, ncache, 0, FALSE))
    /\ recordsRead' = recordsRead + BlockHeaderRecords
    /\ UNCHANGED << dsVars, idxRest, ndim, h_domain_id, opens, accesses, chunkVars, statsVars >>

\* a record of the block has length markers that disagree
OffsetBlockCorrupt ==
    /\ InScan
    /\ OffsetRaise("CorruptRecordError", NoBlock)
    /\ recordsRead' = recordsRead + 1
    /\ UNCHANGED << dsVars, idxRest, ndim, h_domain_id, opens, accesses, chunkVars, statsVars >>

\* mutant: the blocks of every cpu are taken for the handler's
BelongsToAnyDomain(cpu, level) == level >= min_level

\* if cpu + 1 == self.domain_id and level >= min_level
BelongsToDomain(cpu, level) == cpu + 1 = h_domain_id /\ level >= min_level

\* a block with ncache cells and the expected level number: its position and
\* count are recorded if it is the handler's, its vectors are skipped
OffsetBlock ==
    /\ InScan
    /\ \E ilevel \in FileLevels, ncache \in 0..MaxCache :
          LET at == scan.pos + BlockHeaderBytes
              li == scan.level - min_level + 1
              mine == BelongsToDomain(scan.cpu, scan.level)
          IN  /\ ~EmptyBlock(ncache)
              /\ LevelCheckPasses(ilevel, scan.level)
              /\ scan' = [NextScan(scan) EXCEPT
                         !.offset = IF mine THEN [@ EXCEPT ![li] = at] ELSE @,
                         !.level_count = IF mine THEN [@ EXCEPT ![li] = ncache] ELSE @,
                         !.writes = IF mine THEN [@ EXCEPT ![li] = @ + 1] ELSE @,
                         !.pos = at + PayloadBytes(Nvar, ncache),
                         !.last = Block(scan, ilevel, ncache, PayloadRecords(Nvar), mine)]
    /\ recordsRead' = recordsRead + BlockHeaderRecords + PayloadRecords(Nvar)
    /\ UNCHANGED << dsVars, idxRest, error, unreleased, ndim, h_domain_id, h_offset,
                    h_level_count, opens, ret, first, accesses, fillVars, chunkVars, statsVars >>

\* after the loops: self._offset = offset; self._level_count = level_count; return
OffsetStore ==
    /\ scan.pc = "scanning"
    /\ scan.level = nlevelmax
    /\ h_offset' = Arr(scan.offset)
    /\ h_level_count' = Arr(scan.level_count)
    /\ ret' = [what |-> scan.what,
               val |-> IF scan.what = "offset" THEN Arr(scan.offset)
                       ELSE Arr(scan.level_count)]
    /\ first' = IF first.offset.isNone
                THEN [offset |-> Arr(scan.offset), level_count |-> Arr(scan.level_count),
                      at |-> accesses]
                ELSE first
    /\ scan' = [NoScan EXCEPT !.writes = scan.writes]
    /\ unreleased' = AfterOp(unreleased, "offset", FALSE)
    /\ UNCHANGED << dsVars, idxRest, error, ndim, h_domain_id, opens, recordsRead,
                    accesses, fillVars, chunkVars, statsVars >>

(***************************************************************************)
(* RAMSESDomainSubset.fill.  The stream `content` holds the field file;    *)
(* its position is counted in bytes.  pdb.set_trace() stops the call and   *)
(* hands control to whoever is at the debugger prompt: the call goes on    *)
(* when the debugger is told to continue and ends with BdbQuit when it is  *)
(* told to quit or its input is at end of file.                            *)
(***************************************************************************)
\* all_fields = [f for ft, f in file_handler.field_list]
AllFields == cls_field_list["ramses"]

\* the elements of a sequence
Elems(q) == { q[k] : k \in DOMAIN q }

\* the sub-lists of a list, in the list's order
SubLists(q) == { SelectSeq(q, LAMBDA x : x \in S) : S \in SUBSET Elems(q) }

\* fpu.read_vector(content, 'd') over a record of nc doubles
ReadVector(pos, nc) == pos + RecordBytes(nc, 8)

\* fpu.skip(content) over a record of nc doubles
Skip(pos, nc) == pos + RecordBytes(nc, 8)

\* mutant: a field that was not asked for is left where it is
AfterRecordNoSkip(pos, nc, wanted) == IF wanted THEN ReadVector(pos, nc) ELSE pos

\* if field not in fields: fpu.skip(content) else: ... fpu.read_vector(content, 'd')
AfterRecord(pos, nc, wanted) == IF wanted THEN ReadVector(pos, nc) ELSE Skip(pos, nc)

\* lines 246-256: the arguments, cell_count, and tr[field] = np.zeros(cell_count)
FillStart ==
    /\ fill.pc = "new"
    /\ \E fields \in SubLists(AllFields), cell_count \in 0..MaxCells :
          fill' = [fill EXCEPT !.pc = "offsets", !.fields = fields,
                               !.cell_count = cell_count,
                               !.tr = [f \in Elems(fields) |-> cell_count]]
    /\ UNCHANGED << idxVars, offVars, chunkVars, statsVars >>

\* the fill loop variables at the head of the next iteration of the level loop
NextLevel(fl) ==
    [fl EXCEPT !.pc = "level", !.level = @ + 1, !.i = 0, !.j = 1, !.log = <<>>]

\* for level, offset in enumerate(file_handler.offset): the offsets are there
FillEnumerate ==
    /\ fill.pc = "offsets"
    /\ scan.pc = "idle"
    /\ CacheHit(h_offset)
    /\ fill' = [fill EXCEPT !.pc = "level", !.level = 0]
    /\ UNCHANGED << idxVars, offVars, chunkVars, statsVars >>

InLevel == fill.pc = "level" /\ fill.level < Len(h_offset.arr)

\* offset of the level at the head of the loop
LevelOffset == h_offset.arr[fill.level + 1]

\* nc = file_handler.level_count[level]
Nc == h_level_count.arr[fill.level + 1]

\* if offset == -1: continue
FillSkipLevel ==
    /\ InLevel
    /\ LevelOffset = -1
    /\ fill' = NextLevel(fill)
    /\ UNCHANGED << idxVars, offVars, chunkVars, statsVars >>

\* content.seek(offset); nc = ...; tmp[field] = np.empty((nc, 2**ndim))
FillSeek ==
    /\ InLevel
    /\ LevelOffset # -1
    /\ fill' = [fill EXCEPT !.pc = "record", !.pos = LevelOffset, !.i = 0, !.j = 1,
                            !.log = <<>>]
    /\ UNCHANGED << idxVars, offVars, chunkVars, statsVars >>

\* the loop variables of the two inner loops after one more field
AfterField(fl) ==
    IF fl.j < Len(AllFields) THEN [fl EXCEPT !.pc = "record", !.j = @ + 1]
    ELSE IF fl.i + 1 < Pow2(ndim) THEN [fl EXCEPT !.pc = "record", !.i = @ + 1, !.j = 1]
    ELSE [fl EXCEPT !.pc = "pdb_level"]

\* what the call did with a record
Consumed(fl, mode) == Append(fl.log, [i |-> fl.i, field |-> AllFields[fl.j], mode |-> mode])

\* a field that was not asked for: fpu.skip(content)
FillSkipRecord ==
    /\ fill.pc = "record"
    /\ AllFields[fill.j] \notin Elems(fill.fields)
    /\ fill' = [AfterField(fill) EXCEPT !.pos = AfterRecord(fill.pos, Nc, FALSE),
                                        !.log = Consumed(fill, "skip")]
    /\ UNCHANGED << idxVars, offVars, chunkVars, statsVars >>

\* a field that was asked for: tmp[field][:,i] = fpu.read_vector(content, 'd'),
\* then pdb.set_trace()
FillReadRecord ==
    /\ fill.pc = "record"
    /\ AllFields[fill.j] \in Elems(fill.fields)
    /\ fill' = [fill EXCEPT !.pc = "pdb_read",
                            !.pos = AfterRecord(fill.pos, Nc, TRUE),
                            !.log = Consumed(fill, "read")]
    /\ UNCHANGED << idxVars, offVars, chunkVars, statsVars >>

AtDebugger == fill.pc \in {"pdb_read", "pdb_level"}

\* the debugger is told to continue
PdbContinue ==
    /\ AtDebugger
    /\ fill' = IF fill.pc = "pdb_read" THEN AfterField(fill)
               ELSE [fill EXCEPT !.pc = "fill_level"]
    /\ UNCHANGED << idxVars, offVars, chunkVars, statsVars >>

\* the debugger is told to quit, or has no input to read: BdbQuit leaves fill
PdbQuit ==
    /\ AtDebugger
    /\ fill' = [fill EXCEPT !.pc = "raised"]
    /\ error' = "BdbQuit"
    /\ UNCHANGED << dsVars, idxRest, unreleased, offVars, chunkVars, statsVars >>

\* oct_handler.fill_level(level, levels, cell_inds, file_inds, tr, tmp)
FillLevel ==
    /\ fill.pc = "fill_level"
    /\ fill' = [NextLevel(fill) EXCEPT !.calls = Append(@, fill.level)]
    /\ UNCHANGED << idxVars, offVars, chunkVars, statsVars >>

\* return tr
FillReturn ==
    /\ fill.pc = "level"
    /\ fill.level = Len(h_offset.arr)
    /\ fill' = [fill EXCEPT !.pc = "returned"]
    /\ UNCHANGED << idxVars, offVars, chunkVars, statsVars >>

(***************************************************************************)
(* RAMSESIndex._identify_base_chunk and RAMSESDomainFile.included.         *)
(***************************************************************************)
\* self.domain_id in self.oct_handler.domain_identify(selector): the domain's
\* container reports octs of the domain that overlap the selector
Overlaps(dom, selector) == dom.domain_id \in selector.hits

\* mutant: included ignores the selector's own domain_id
IncludedByOverlap(dom, selector) == Overlaps(dom, selector)

\* RAMSESDomainFile.included
Included(dom, selector) ==
    IF selector.has_domain_id
    THEN selector.domain_id = dom.domain_id
    ELSE Overlaps(dom, selector)

\* RAMSESDomainSubset(base_region, domain, self.dataset)
DomainSubset(dom) == [domain_id |-> dom.domain_id]

\* the variables _identify_base_chunk leaves alone
ChunkRest == << idxVars, offVars, fillVars, statsVars >>

\* if getattr(dobj, "_chunk_info", None) is None: the comprehension starts
ChunkBegin ==
    /\ chunk.pc = "new"
    /\ chunk.chunk_info.isNone
    /\ chunk' = [chunk EXCEPT !.pc = "filter", !.i = 1, !.kept = <<>>]
    /\ UNCHANGED ChunkRest

InFilter == chunk.pc = "filter" /\ chunk.i <= Len(domains)

\* [dom for dom in self.domains if dom.included(dobj.selector)]: dom is kept
ChunkKeep ==
    /\ InFilter
    /\ Included(domains[chunk.i], chunk.selector)
    /\ chunk' = [chunk EXCEPT !.i = @ + 1, !.kept = Append(@, domains[chunk.i])]
    /\ UNCHANGED ChunkRest

\* ... dom is left out
ChunkDrop ==
    /\ InFilter
    /\ ~Included(domains[chunk.i], chunk.selector)
    /\ chunk' = [chunk EXCEPT !.i = @ + 1]
    /\ UNCHANGED ChunkRest

\* subsets = [RAMSESDomainSubset(...) for domain in domains]; dobj._chunk_info = subsets
ChunkSubsets ==
    /\ chunk.pc = "filter"
    /\ chunk.i > Len(domains)
    /\ chunk' = [chunk EXCEPT !.pc = "current",
                   !.chunk_info = Arr([k \in DOMAIN chunk.kept |-> DomainSubset(chunk.kept[k])])]
    /\ UNCHANGED ChunkRest

\* _chunk_info is set: the body of the if is not run
ChunkCached ==
    /\ chunk.pc = "new"
    /\ ~chunk.chunk_info.isNone
    /\ chunk' = [chunk EXCEPT !.pc = "current"]
    /\ UNCHANGED ChunkRest

\* dobj._current_chunk = list(self._chunk_all(dobj))[0]
ChunkCurrent ==
    /\ chunk.pc = "current"
    /\ chunk' = [chunk EXCEPT !.pc = "done", !.current_chunk = chunk.chunk_info,
                              !.calls = @ + 1]
    /\ UNCHANGED ChunkRest

\* the index is asked again for the base chunk of the same data object
ChunkAgain ==
    /\ chunk.pc = "done"
    /\ chunk.calls < MaxCalls
    /\ chunk' = [chunk EXCEPT !.pc = "new"]
    /\ UNCHANGED ChunkRest

(***************************************************************************)
(* RAMSESDomainFile.level_count and RAMSESIndex._initialize_level_stats.   *)
(***************************************************************************)
\* fh.level_count of the handler of the given kind of the d-th domain: the counts
\* of the domain's blocks in the handler's file, which are the domain's counts
HandlerLevelCount(d, kind) == stats.counts[d]

\* the element-wise sum of two arrays
ArrAdd(a, b) == [i \in DOMAIN a |-> a[i] + b[i]]

\* sum([...]) over a list of arrays
RECURSIVE ArrSum(_, _)
ArrSum(q, n) == IF q = <<>> THEN [i \in 1..n |-> 0] ELSE ArrAdd(Head(q), ArrSum(Tail(q), n))

\* the variables the level statistics leave alone
StatsRest == << idxVars, offVars, fillVars, chunkVars >>

\* the handler the loop of RAMSESDomainFile.level_count is at
InHandlers ==
    /\ stats.pc = "domain"
    /\ stats.d <= Len(domains)
    /\ stats.fh <= Len(domains[stats.d].field_handlers)

\* lvl_count += fh._level_count
LevelCountPlus(acc, count) == ArrAdd(acc, count)

\* levels = sum([dom.level_count for dom in self.domains]): the first domain is asked
StatsBegin ==
    /\ stats.pc = "new"
    /\ stats' = [stats EXCEPT !.pc = "domain", !.d = 1, !.fh = 1, !.lvl_count = NoneArr]
    /\ UNCHANGED StatsRest

\* fh.offset; if lvl_count is None: lvl_count = fh.level_count.copy()
LevelCountFirst ==
    /\ InHandlers
    /\ stats.lvl_count.isNone
    /\ stats' = [stats EXCEPT
                   !.lvl_count = Arr(HandlerLevelCount(stats.d,
                                         domains[stats.d].field_handlers[stats.fh])),
                   !.fh = @ + 1]
    /\ UNCHANGED StatsRest

\* fh.offset; else: lvl_count += fh._level_count
LevelCountMore ==
    /\ InHandlers
    /\ ~stats.lvl_count.isNone
    /\ stats' = [stats EXCEPT
                   !.lvl_count = Arr(LevelCountPlus(stats.lvl_count.arr,
                                        HandlerLevelCount(stats.d,
                                            domains[stats.d].field_handlers[stats.fh]))),
                   !.fh = @ + 1]
    /\ UNCHANGED StatsRest

\* return lvl_count, and the next domain is asked
LevelCountReturn ==
    /\ stats.pc = "domain"
    /\ stats.d <= Len(domains)
    /\ stats.fh > Len(domains[stats.d].field_handlers)
    /\ stats' = [stats EXCEPT !.dom_level_count = Append(@, stats.lvl_count.arr),
                              !.d = @ + 1, !.fh = 1, !.lvl_count = NoneArr]
    /\ UNCHANGED StatsRest

\* self.dataset.max_level = rheader['levelmax'] - self.min_level - 1
DatasetMaxLevel == nlevelmax - min_level - 1

\* lines 355-364: the table of min_level + max_level + 2 rows, zeros, then the
\* cells of the levels up to min_level, then the counts of the levels of the index
LevelStats(levels) ==
    [row \in 0..(min_level + DatasetMaxLevel + 1) |->
        IF row >= min_level + 1 /\ row - min_level - 1 <= idx_max_level
        THEN levels[row - min_level]
        ELSE IF row >= 1 /\ row - 1 <= min_level
        THEN Pow2((row - 1) * ndim)
        ELSE 0]

\* the sum over the domains, and level_stats
InitializeLevelStats ==
    /\ stats.pc = "domain"
    /\ stats.d > Len(domains)
    /\ LET levels == ArrSum(stats.dom_level_count, nlevelmax - min_level)
       IN  stats' = [stats EXCEPT !.pc = "done", !.levels = levels,
                                  !.level_stats = LevelStats(levels)]
    /\ UNCHANGED StatsRest

(***************************************************************************)
(* HydroFieldFileHandler.detect_fields, called on its own.                 *)
(***************************************************************************)
\* detect_fields(ds): the header of the first domain's hydro file, then the names
DetectFieldsCall ==
    /\ dspc = "parsed"
    /\ idxpc = "none"
    /\ detectCalls["ramses"] < MaxCalls
    /\ files' = files \cup {"hydro"}
    /\ unreleased' = AfterOp(unreleased, "detect_hydro",
                             HydroDetectRaises(fieldcfg, fieldcfg.rt))
    /\ cls_parameters' = [cls_parameters EXCEPT !["ramses"] = fieldcfg.nvar]
    /\ ds_gamma' = TRUE
    /\ detectCalls' = [detectCalls EXCEPT !["ramses"] = @ + 1]
    /\ IF HydroDetectRaises(fieldcfg, fieldcfg.rt)
       THEN /\ error' = "ValueError"
            /\ UNCHANGED cls_field_list
       ELSE /\ error' = None
            /\ cls_field_list' = [cls_field_list EXCEPT
                                    !["ramses"] = HydroDetectFields(fieldcfg, fieldcfg.rt)]
    /\ UNCHANGED << otherVars, dsVars, dspc, idxpc, cpu_list, built, domains,
                    idx_max_level, num_grids, cur, clsWriters >>

(***************************************************************************)
(* Specification Spec: opening a dataset and building its index.           *)
(***************************************************************************)
\* what field detection finds on disk: the hydro header's nvar, the user's list of
\* names (fields=...), the descriptor file, the RT run's files
HydroDefaults == [nvar |-> 5, userGiven |-> FALSE, user |-> <<>>, descExists |-> FALSE,
                  desc |-> <<>>, rt |-> FALSE, rtnvar |-> 0, ngroups |-> 0]

IndexDatasets ==
    { [kinds |-> {"ramses"}, cfg |-> HydroDefaults],
      [kinds |-> {"ramses"}, cfg |-> [HydroDefaults EXCEPT !.nvar = 4]],
      [kinds |-> {"ramses", "ramses-rt"},
       cfg |-> [HydroDefaults EXCEPT !.nvar = 9, !.rt = TRUE, !.rtnvar = 4, !.ngroups = 1]] }

Init ==
    /\ ordering \in {"hilbert", "other"}
    /\ bbox \in {None, "box"}
    /\ ncpu \in 1..MaxCpu
    /\ nlevelmax \in 1..MaxLevel
    /\ nboundary \in 0..MaxBoundary
    /\ min_level \in 0..(nlevelmax - 1)
    /\ \E d \in IndexDatasets : kinds = d.kinds /\ fieldcfg = d.cfg
    /\ dspc = "new"
    /\ idxpc = "none"
    /\ error = None
    /\ cpu_list = <<>>
    /\ built = <<>>
    /\ domains = <<>>
    /\ idx_max_level = -1
    /\ num_grids = -1
    /\ cur = NoDomain
    /\ cls_parameters = [k \in {"ramses", "ramses-rt"} |-> -1]
    /\ cls_field_list = [k \in {"ramses", "ramses-rt"} |-> <<>>]
    /\ ds_gamma = FALSE
    /\ files = {}
    /\ unreleased = {}
    /\ detectCalls = [k \in {"ramses", "ramses-rt"} |-> 0]
    /\ clsWriters = {}
    /\ OffIdle
    /\ fill = NoFill
    /\ chunk = NoChunk
    /\ stats = NoStats

Next ==
    \/ ParseParameterFile
    \/ ParseParameterFileRaise
    \/ InitializeOctHandler
    \/ ReadAmrHeader
    \/ ReadAmrHeaderCorrupt
    \/ DetectHydroFields
    \/ DetectRTFields
    \/ ReadAmrOpen
    \/ AmrNoRecord
    \/ AmrCorruptRecord
    \/ AmrBelowMinLevel
    \/ AmrAdd
    \/ AmrFinish
    \/ FinishIndex
    \/ Collect

Spec == Init /\ [][Next]_vars


(***************************************************************************)
(* Properties of Spec.                                                     *)
(***************************************************************************)
\* the handles the read/parse operations of the domain readers and field handlers own
OperationHandles == {"amr_header", "amr", "detect_hydro", "detect_rt", "offset"}

\* the parse of the current domain was aborted by _error_check
IntegrityAbort == cur.pc = "raised" /\ error = "RuntimeError"

\* C1: in _read_amr, once oct_handler.add has returned n for a block with ng > 0
\* and level >= min_level, the parse goes on if and only if n == ng or
\* cpu + 1 > oct_handler.num_domains; otherwise it aborts with a fatal error,
\* and an aborted parse reads no further block and is not retried.
C1_ErrorCheck ==
    /\ [](cur.last # NoAdd =>
            (~IntegrityAbort <=>
                (cur.last.n = cur.last.ng \/ cur.last.cpu + 1 > cur.oct.num_domains)))
    /\ [][IntegrityAbort =>
            (cur' = cur /\ idxpc' = "failed" /\ error' = error /\ files' = files
             /\ built' = built /\ domains' = domains)]_vars

\* C1 witness: a boundary block whose octs the container declined (n # ng,
\* cpu + 1 > num_domains) and after which the parse went on
C1_Witness ==
    /\ cur.pc = "amr"
    /\ cur.last # NoAdd
    /\ cur.last.n # cur.last.ng
    /\ cur.last.cpu + 1 > cur.oct.num_domains

\* C2: a corrupted record on any block of a domain's AMR parse raises an error
\* (the index construction fails) and the index then holds no domain reader
\* whose octree container was allocated but not finalized.
C2_NoPartialContainerVisible ==
    error = "CorruptRecordError" =>
        /\ idxpc = "failed"
        /\ \A i \in DOMAIN domains : domains[i].oct.state # "allocated"

\* C2 witness: the second domain's parse hits the corrupt record after octs
\* were already added to its container
C2_Witness ==
    /\ error = "CorruptRecordError"
    /\ Len(built) >= 1
    /\ cur.pc = "raised"
    /\ cur.oct.state = "allocated"
    /\ cur.oct.adds >= 1

\* C4 (as claimed): no handle opened by a read/parse operation that has ended,
\* normally or by a fatal error, is still open.
C4_HandlesReleased == unreleased \cap OperationHandles = {}

\* C5 (as claimed): no variable written during the construction of one domain
\* is written during the construction of another.
C5_NoSharedWrites == Cardinality(clsWriters) <= 1

\* C6: a _read_amr run that completes has called finalize exactly once, after
\* the whole level x cpu scan, with no add on the container afterwards; a run
\* that is under way or was aborted has not called finalize.
C6_FinalizeOnce ==
    /\ \A i \in DOMAIN built :
          /\ built[i].oct.finalizeCalls = 1
          /\ built[i].oct.state = "finalized"
          /\ built[i].oct.finalizedAt = << nlevelmax, 0 >>
          /\ built[i].oct.addsAfterFinalize = 0
    /\ cur.oct.finalizeCalls = 0
    /\ cur.oct.state # "finalized"

\* C6 witness: a completed reader that owns octs, and a later run aborted
C6_Witness ==
    /\ Len(built) >= 1
    /\ built[1].local_oct_count > 0
    /\ built[1].oct.finalizeCalls = 1
    /\ cur.pc = "raised"
    /\ cur.oct.adds >= 1

\* C7: with an ordering other than hilbert and a bounding box, opening the
\* dataset fails with the unsupported-ordering error before any domain reader
\* is constructed and before any AMR or field file is opened.
C7_UnsupportedOrdering ==
    (ordering # "hilbert" /\ bbox = "box") =>
        /\ dspc \in {"new", "failed"}
        /\ (dspc = "failed" => error = "NotImplementedError")
        /\ idxpc = "none"
        /\ cur.pc = "none"
        /\ built = <<>>
        /\ domains = <<>>
        /\ files \subseteq {"info"}

\* C7 witness: the open has failed, only the parameter file was opened
C7_Witness ==
    /\ ordering # "hilbert"
    /\ bbox = "box"
    /\ dspc = "failed"
    /\ error = "NotImplementedError"
    /\ files = {"info"}


\* the AMR header of the domain under construction has been parsed
HeaderParsed == cur.numbl # <<>>

C13_DetectOncePerKind ==
    \A k \in DOMAIN detectCalls : detectCalls[k] <= 1


\* the greatest element of a non-empty set of integers
SetMax(S) == CHOOSE x \in S : \A y \in S : y <= x

\* C16: after a successful _read_amr the domain's max_level is the maximum of
\* level - min_level over the blocks (level >= min_level) whose add call returned
\* n > 0, and 0 when there is none; a block whose insertion count is 0 does not
\* raise it.
C16_MaxLevelOfInsertions ==
    /\ [](cur.pc = "amr" => cur.max_level_loop = SetMax(cur.inserted \cup {0}))
    /\ [][(cur.pc = "amr" /\ Len(built') = Len(built) + 1) =>
             built'[Len(built')].max_level = SetMax(cur.inserted \cup {0})]_vars

\* C16 witness: the scan is past a block of level min_level + 1 whose add
\* returned 0 (a boundary block), octs were inserted on level min_level only,
\* and max_level is still 0
C16_Witness ==
    /\ cur.pc = "amr"
    /\ cur.last.n = 0
    /\ cur.last.level - min_level = 1
    /\ cur.inserted = {0}
    /\ cur.max_level_loop = 0


(***************************************************************************)
(* Specification SpecOffset: the accesses to offset and level_count of     *)
(* one field handler of a constructed domain reader.                       *)
(***************************************************************************)
\* the variables of the dataset and the index once the index is built
IdxReady ==
    /\ ordering = "hilbert"
    /\ bbox = None
    /\ kinds = {"ramses"}
    /\ dspc = "parsed"
    /\ idxpc = "ready"
    /\ error = None
    /\ cpu_list = <<>>
    /\ built = <<>>
    /\ domains = <<>>
    /\ idx_max_level = -1
    /\ num_grids = -1
    /\ cur = NoDomain
    /\ ds_gamma = TRUE
    /\ files = {}
    /\ unreleased = {}
    /\ detectCalls = [k \in {"ramses", "ramses-rt"} |-> 0]
    /\ clsWriters = {}

\* the class attributes after HydroFieldFileHandler.detect_fields on a hydro file
\* of nvar variables, for a dataset loaded with fields=["Density"]
Detected(nvar) ==
    /\ fieldcfg = [HydroDefaults EXCEPT !.nvar = nvar, !.userGiven = TRUE,
                                        !.user = << "Density" >>]
    /\ cls_parameters = [k \in {"ramses", "ramses-rt"} |->
                            IF k = "ramses" THEN nvar ELSE -1]
    /\ cls_field_list = [k \in {"ramses", "ramses-rt"} |->
                            IF k = "ramses" THEN HydroDetectFields(fieldcfg, FALSE)
                            ELSE <<>>]

InitOffset ==
    /\ IdxReady
    /\ ncpu \in 1..MaxCpu
    /\ nlevelmax \in 1..MaxLevel
    /\ nboundary \in 0..MaxBoundary
    /\ min_level \in 0..(nlevelmax - 1)
    /\ \E nvar \in 1..MaxNvar : Detected(nvar)
    /\ ndim \in 1..MaxDim
    /\ h_domain_id \in 1..ncpu
    /\ h_offset = NoneArr
    /\ h_level_count = NoneArr
    /\ scan = NoScan
    /\ opens = 0
    /\ recordsRead = 0
    /\ ret = [what |-> "none", val |-> NoneArr]
    /\ first = [offset |-> NoneArr, level_count |-> NoneArr, at |-> 0]
    /\ accesses = 0
    /\ fill = NoFill
    /\ chunk = NoChunk
    /\ stats = NoStats

NextOffset ==
    \/ AccessOffsetCached
    \/ AccessLevelCountCached
    \/ OffsetOpen
    \/ OffsetBlockEmpty
    \/ OffsetBlockLevelMismatch
    \/ OffsetBlockCorrupt
    \/ OffsetBlock
    \/ OffsetStore

SpecOffset == InitOffset /\ [][NextOffset]_vars

\* C3: every access to offset / level_count made after the first successful
\* one returns the array the first one produced, opens no file and reads no
\* record.
C3_OffsetIdempotent ==
    (~first.offset.isNone /\ accesses > first.at) =>
        /\ scan.pc = "idle"
        /\ opens = 0
        /\ recordsRead = 0
        /\ ret.what \in {"offset", "level_count"}
        /\ ret.what = "offset" => ret.val = first.offset
        /\ ret.what = "level_count" => ret.val = first.level_count
        /\ h_offset = first.offset
        /\ h_level_count = first.level_count

\* C3 witness: three accesses, the first scanned a file holding a block of the
\* handler's domain, the last was answered from the cache
C3_Witness ==
    /\ accesses = 3
    /\ first.at = 1
    /\ scan.pc = "idle"
    /\ ~h_offset.isNone
    /\ \E i \in DOMAIN h_offset.arr : h_offset.arr[i] # -1
    /\ ret.what = "level_count"

\* the block whose header the scan read last has cells and a level number
\* other than the loop's level + 1
LevelMismatch == scan.last.ncache # 0 /\ scan.last.ilevel # scan.last.level + 1

\* C11: in the offset scan, a block with a non-zero cache count whose level
\* number differs from level + 1 aborts the scan with a fatal error (nothing is
\* stored), and that error comes from no other block: a block with cache count 0
\* is passed whatever its level number.
C11_LevelNumberChecked ==
    /\ LevelMismatch =>
          /\ scan.pc = "idle"
          /\ error = "AssertionError"
          /\ h_offset.isNone
          /\ h_level_count.isNone
    /\ error = "AssertionError" => LevelMismatch
    /\ (scan.pc = "scanning" /\ scan.last # NoBlock /\ scan.last.ncache = 0) =>
          error = None

\* C11 witness: the scan aborted on a block of the second level, after it had
\* passed the blocks of the first
C11_Witness ==
    /\ error = "AssertionError"
    /\ scan.pc = "idle"
    /\ scan.last.level = 1
    /\ scan.last.ilevel = 1
    /\ scan.last.ncache = 1


\* one iteration of the cpu loop of the scan that did not abort: the block read is
\* the one at the loop's (level, cpu); with a zero cache count nothing else is
\* consumed or recorded; otherwise exactly 2^ndim x nvar vectors of ncache
\* doubles are skipped, and the position after the header and the cache count are
\* written to the block's level entry if and only if the block is the handler's
\* domain's and its level is at least min_level, no other entry being touched
ScanIteration ==
    (scan.pc = "scanning" /\ scan'.pc = "scanning" /\ scan' # scan) =>
        LET b == scan'.last
            li == b.level - min_level + 1
            mine == b.cpu + 1 = h_domain_id /\ b.level >= min_level
        IN  /\ b.level = scan.level
            /\ b.cpu = scan.cpu
            /\ b.at = scan.pos + 2 * RecordBytes(1, 4)
            /\ IF b.ncache = 0
               THEN /\ scan'.pos = b.at
                    /\ scan'.offset = scan.offset
                    /\ scan'.level_count = scan.level_count
               ELSE /\ b.skipped = Pow2(ndim) * cls_parameters["ramses"]
                    /\ scan'.pos = b.at + b.skipped * RecordBytes(b.ncache, 8)
                    /\ b.recorded <=> mine
                    /\ scan'.offset = IF mine THEN [scan.offset EXCEPT ![li] = b.at]
                                      ELSE scan.offset
                    /\ scan'.level_count = IF mine
                                           THEN [scan.level_count EXCEPT ![li] = b.ncache]
                                           ELSE scan.level_count

\* the scan starts with every offset -1 and every count 0, one entry per level
\* from min_level on
ScanStart ==
    (scan.pc = "idle" /\ scan'.pc = "scanning") =>
        /\ scan'.offset = [i \in 1..(nlevelmax - min_level) |-> -1]
        /\ scan'.level_count = [i \in 1..(nlevelmax - min_level) |-> 0]

\* C14: in the offset scan, every block with a non-zero cache count is followed
\* by a skip of exactly 2^ndim x nvar vectors whether or not it is the handler's
\* domain's, and its position and cache count are recorded in
\* offset[level-min_level] and level_count[level-min_level] if and only if cpu+1
\* is the handler's domain id and level >= min_level; every other entry keeps the
\* -1 and the 0 the scan started with.
C14_ScanRecordsOwnBlocks == [][ScanStart /\ ScanIteration]_vars

\* C14 witness: in two dimensions with two variables, the own block of the first
\* level was recorded and the block just read, of another cpu, was skipped over
\* (8 vectors) without being recorded
C14_Witness ==
    /\ scan.pc = "scanning"
    /\ ndim = 2
    /\ cls_parameters["ramses"] = 2
    /\ scan.last.ncache = 1
    /\ scan.last.cpu + 1 # h_domain_id
    /\ scan.last.skipped = 8
    /\ ~scan.last.recorded
    /\ scan.offset[1] # -1
    /\ scan.level_count[1] = 1


\* C19: after a successful offset computation, for every level index l of the
\* handler, offset[l] is -1 if and only if level_count[l] is 0; and during a
\* scan, and at its end, no level's offset has been written more than once.
C19_OffsetAbsentIffNoCells ==
    /\ CacheHit(h_offset) =>
          /\ CacheHit(h_level_count)
          /\ DOMAIN h_offset.arr = 1..(nlevelmax - min_level)
          /\ DOMAIN h_level_count.arr = DOMAIN h_offset.arr
          /\ \A l \in DOMAIN h_offset.arr :
                h_offset.arr[l] = -1 <=> h_level_count.arr[l] = 0
    /\ \A l \in DOMAIN scan.writes : scan.writes[l] <= 1

\* C19 witness: a computation that has just ended, with a level of the handler
\* that has cells (written once) and one that has none
C19_Witness ==
    /\ CacheHit(h_offset)
    /\ scan.pc = "idle"
    /\ Len(h_offset.arr) = 2
    /\ h_offset.arr[1] = -1
    /\ h_level_count.arr[1] = 0
    /\ h_offset.arr[2] # -1
    /\ h_level_count.arr[2] = 1
    /\ scan.writes = << 0, 1 >>


\* the last access to the handler ended with the scan aborted
ScanAborted == scan.pc = "idle" /\ error \in {"AssertionError", "CorruptRecordError"}

\* C20: when the offset scan is aborted (the level number check fails, a record
\* is corrupt), neither _offset nor _level_count is set and nothing is returned;
\* the next access to offset or level_count opens the file and scans it again
\* from the first block, with fresh arrays.
C20_AbortStoresNothing ==
    /\ [](ScanAborted =>
            /\ h_offset.isNone
            /\ h_level_count.isNone
            /\ ret.what = "none")
    /\ [][(ScanAborted /\ accesses' = accesses + 1) =>
            /\ scan'.pc = "scanning"
            /\ opens' = 1
            /\ scan'.pos = 5 * RecordBytes(1, 4) + RecordBytes(1, 8)
            /\ scan'.level = 0
            /\ scan'.cpu = 0
            /\ scan'.offset = [i \in 1..(nlevelmax - min_level) |-> -1]
            /\ scan'.level_count = [i \in 1..(nlevelmax - min_level) |-> 0]]_vars

\* C20 witness: the first access stored nothing (its scan was aborted); the
\* second access scanned the file again and its result, the first to be stored,
\* has both levels of the handler
C20_Witness ==
    /\ accesses = 2
    /\ first.at = 2
    /\ CacheHit(h_offset)
    /\ Len(h_offset.arr) = 2
    /\ h_offset.arr[1] # -1
    /\ h_offset.arr[2] # -1


(***************************************************************************)
(* Specification SpecFill: one call of RAMSESDomainSubset.fill on the      *)
(* hydro file of a constructed domain reader, whose handler has not been   *)
(* asked for its offsets before.                                           *)
(***************************************************************************)
InitFill ==
    /\ IdxReady
    /\ ncpu \in 1..MaxCpu
    /\ nlevelmax \in 1..MaxLevel
    /\ nboundary \in 0..MaxBoundary
    /\ min_level \in 0..(nlevelmax - 1)
    /\ \E nvar \in 1..MaxNvar : Detected(nvar)
    /\ ndim \in 1..MaxDim
    /\ h_domain_id \in 1..ncpu
    /\ h_offset = NoneArr
    /\ h_level_count = NoneArr
    /\ scan = NoScan
    /\ opens = 0
    /\ recordsRead = 0
    /\ ret = [what |-> "none", val |-> NoneArr]
    /\ first = [offset |-> NoneArr, level_count |-> NoneArr, at |-> 0]
    /\ accesses = 0
    /\ fill = [NoFill EXCEPT !.pc = "new"]
    /\ chunk = NoChunk
    /\ stats = NoStats

NextFill ==
    \/ FillStart
    \/ OffsetOpen
    \/ OffsetBlockEmpty
    \/ OffsetBlockLevelMismatch
    \/ OffsetBlockCorrupt
    \/ OffsetBlock
    \/ OffsetStore
    \/ FillEnumerate
    \/ FillSkipLevel
    \/ FillSeek
    \/ FillSkipRecord
    \/ FillReadRecord
    \/ PdbContinue
    \/ PdbQuit
    \/ FillLevel
    \/ FillReturn

SpecFill == InitFill /\ [][NextFill]_vars

\* the position of the stream after k records of nc doubles were all read
RECURSIVE ReadAll(_, _, _)
ReadAll(pos, nc, k) == IF k = 0 THEN pos ELSE ReadAll(ReadVector(pos, nc), nc, k - 1)

\* fill is inside the block of the level at the head of its loop
InBlock == fill.pc \in {"record", "pdb_read", "pdb_level", "fill_level"}

\* the records fill has consumed of the block are its first ones, in file order:
\* sub-position by sub-position, the stored fields in their order, each once,
\* read if the field was asked for and skipped if not
ConsumedInOrder ==
    \A k \in DOMAIN fill.log :
        /\ fill.log[k].i = (k - 1) \div Len(AllFields)
        /\ fill.log[k].field = AllFields[((k - 1) % Len(AllFields)) + 1]
        /\ fill.log[k].mode = IF fill.log[k].field \in Elems(fill.fields)
                              THEN "read" ELSE "skip"

\* C9: in fill, whatever fields are requested, the records of a level block are
\* consumed one by one, each exactly once (by a read if its field is requested,
\* by a skip if not), the stream being where reading them all would have put it;
\* after the block all 2^ndim x |stored fields| records are consumed.
C9_SkipLandsWhereReadDoes ==
    InBlock =>
        /\ ConsumedInOrder
        /\ fill.pos = ReadAll(LevelOffset, Nc, Len(fill.log))
        /\ fill.pc \in {"pdb_level", "fill_level"}
              => Len(fill.log) = Pow2(ndim) * Len(AllFields)

\* C9 witness: the block of the second level is consumed, with records read and
\* records skipped, in two dimensions
C9_Witness ==
    /\ fill.pc = "pdb_level"
    /\ fill.level = 1
    /\ ndim = 2
    /\ Len(fill.log) = 8
    /\ \E k \in DOMAIN fill.log : fill.log[k].mode = "skip"
    /\ \E k \in DOMAIN fill.log : fill.log[k].mode = "read"

\* C10 (as claimed): with zero matching cells and the offset index at hand, fill
\* raises no error, and what it returns has one array of length 0 per requested field.
C10_ZeroCellsNoError ==
    (fill.cell_count = 0 /\ CacheHit(h_offset)) =>
        /\ fill.pc # "raised"
        /\ error = None
        /\ fill.pc = "returned" =>
              /\ DOMAIN fill.tr = Elems(fill.fields)
              /\ \A f \in DOMAIN fill.tr : fill.tr[f] = 0

\* the level indices whose offset is not -1, in increasing order
PresentLevels ==
    SelectSeq(Range0(Len(h_offset.arr)), LAMBDA l : h_offset.arr[l + 1] # -1)

\* C17 (as claimed): once fill has ended, with the offset index at hand,
\* fill_level has been called exactly once for every level whose offset is not
\* -1, in increasing order of level, and for no other level.
C17_EveryPresentLevelFilled ==
    (fill.pc \in {"returned", "raised"} /\ CacheHit(h_offset)) =>
        fill.calls = PresentLevels


(***************************************************************************)
(* Specification SpecFillLive: the same call of fill, with the progress    *)
(* the interpreter gives it.  A step of the call that needs nothing from   *)
(* outside (a step of the offset scan or of the loops of fill) is taken    *)
(* when it can be.  The two debugger steps are not in FillStep: whether    *)
(* and how pdb.set_trace() is left depends on what is typed at its prompt. *)
(***************************************************************************)
\* the steps of the call the interpreter takes by itself
FillStep ==
    \/ FillStart
    \/ OffsetOpen
    \/ OffsetBlockEmpty
    \/ OffsetBlockLevelMismatch
    \/ OffsetBlockCorrupt
    \/ OffsetBlock
    \/ OffsetStore
    \/ FillEnumerate
    \/ FillSkipLevel
    \/ FillSeek
    \/ FillSkipRecord
    \/ FillReadRecord
    \/ FillLevel
    \/ FillReturn

SpecFillLive == InitFill /\ [][NextFill]_vars /\ WF_vars(FillStep)

\* fill is at the head of its level loop, the offset index at hand
InLevelLoop == fill.pc = "level" /\ CacheHit(h_offset)

\* C21 (as claimed): whatever the offset index and the requested fields, fill
\* never stops to wait for interactive input, and once it has the offset index
\* and enters its level loop it ends by returning its mapping.
C21_FillReturnsWithoutWaiting ==
    /\ [](~AtDebugger)
    /\ InLevelLoop ~> (fill.pc = "returned")


(***************************************************************************)
(* Specification SpecChunk: the base chunk of one data object on a built   *)
(* index.                                                                  *)
(***************************************************************************)
\* a constructed domain reader with the given id and oct count
BuiltReader(id, count) ==
    [domain_id |-> id, local_oct_count |-> count, max_level |-> 0,
     oct |-> [state |-> "finalized", finalizeCalls |-> 1, addsAfterFinalize |-> 0,
              finalizedAt |-> << nlevelmax, 0 >>],
     field_handlers |-> FieldHandlers(kinds)]

InitChunk ==
    /\ ordering = "hilbert"
    /\ bbox \in {None, "box"}
    /\ kinds = {"ramses"}
    /\ dspc = "parsed"
    /\ idxpc = "ready"
    /\ error = None
    /\ ncpu \in 1..MaxDomains
    /\ nlevelmax = 1
    /\ nboundary = 0
    /\ min_level = 0
    /\ Detected(5)
    /\ cpu_list \in (IF bbox # None THEN GetCpuList(ncpu) ELSE {Range0(ncpu)})
    /\ \E counts \in [1..ncpu -> 0..MaxOct] :
          /\ built = [k \in DOMAIN cpu_list |-> BuiltReader(cpu_list[k] + 1,
                                                            counts[cpu_list[k] + 1])]
          /\ \A d \in 1..ncpu : (\A k \in DOMAIN cpu_list : cpu_list[k] + 1 # d)
                                    => counts[d] = 0
    /\ domains = built
    /\ idx_max_level = 0
    /\ num_grids = SumLocal(domains)
    /\ cur = NoDomain
    /\ ds_gamma = TRUE
    /\ files = {}
    /\ unreleased = {}
    /\ detectCalls = [k \in {"ramses", "ramses-rt"} |-> 0]
    /\ clsWriters = {}
    /\ OffIdle
    /\ fill = NoFill
    /\ \E hits \in SUBSET (1..ncpu), has \in BOOLEAN, id \in 1..ncpu :
          /\ \A d \in hits : \E k \in DOMAIN domains :
                /\ domains[k].domain_id = d
                /\ domains[k].local_oct_count > 0
          /\ ~has => id = 1
          /\ chunk = [NoChunk EXCEPT !.pc = "new",
                        !.selector = [has_domain_id |-> has, domain_id |-> id,
                                      hits |-> hits]]
    /\ stats = NoStats

NextChunk ==
    \/ ChunkBegin
    \/ ChunkKeep
    \/ ChunkDrop
    \/ ChunkSubsets
    \/ ChunkCached
    \/ ChunkCurrent
    \/ ChunkAgain

SpecChunk == InitChunk /\ [][NextChunk]_vars

\* dobj._chunk_info
Units == chunk.chunk_info.arr

\* the number of work units of the domain d
UnitsOf(d) == Cardinality({ u \in DOMAIN Units : Units[u].domain_id = d })

\* C8 (as claimed): a domain with zero overlapping octs has no work unit.
C8_NoUnitWithoutOverlap ==
    chunk.pc \in {"current", "done"} =>
        \A k \in DOMAIN domains :
            domains[k].domain_id \notin chunk.selector.hits
                => UnitsOf(domains[k].domain_id) = 0

\* C8 (amended): _identify_base_chunk leaves exactly one work unit per domain
\* reader that is included, in domain order, and none for any other; a reader is
\* included if the selector carries a domain_id that is the reader's,
\* or, the selector carrying none, if its container reports the domain as
\* overlapping; only in the latter case does a domain with zero overlapping octs
\* contribute no unit.
C8_UnitsOfIncludedDomains ==
    chunk.pc \in {"current", "done"} =>
        /\ ~chunk.chunk_info.isNone
        /\ \A k \in DOMAIN domains :
              LET d == domains[k].domain_id
                  wanted == IF chunk.selector.has_domain_id
                            THEN chunk.selector.domain_id = d
                            ELSE d \in chunk.selector.hits
              IN  UnitsOf(d) = IF wanted THEN 1 ELSE 0
        /\ \A u \in DOMAIN Units :
              \E k \in DOMAIN domains : domains[k].domain_id = Units[u].domain_id
        /\ \A u, v \in DOMAIN Units : u < v => Units[u].domain_id < Units[v].domain_id
        /\ chunk.pc = "done" => chunk.current_chunk = chunk.chunk_info

\* C8 witness: three domains, the selector carries no domain_id, the first and
\* the third overlap it and the second does not: two units, in that order
C8_Witness ==
    /\ chunk.pc = "done"
    /\ ~chunk.selector.has_domain_id
    /\ Len(domains) = 3
    /\ chunk.selector.hits = {1, 3}
    /\ Len(Units) = 2
    /\ Units[1].domain_id = 1
    /\ Units[2].domain_id = 3

(***************************************************************************)
(* Specification SpecStats: the level statistics of a built index.         *)
(***************************************************************************)
\* the greatest level index with a cell, 0 if there is none
RECURSIVE TopLevel(_, _)
TopLevel(count, n) ==
    IF n = 0 THEN 0 ELSE IF count[n] > 0 THEN n - 1 ELSE TopLevel(count, n - 1)

\* a constructed domain reader of the dataset with the given cells per level
\* the sum of the first n entries of an array
RECURSIVE SumArr(_, _)
SumArr(a, n) == IF n = 0 THEN 0 ELSE a[n] + SumArr(a, n - 1)

StatsReader(id, count) ==
    [BuiltReader(id, SumArr(count, Len(count))) EXCEPT
        !.max_level = TopLevel(count, Len(count))]

\* a hydro-only dataset and a dataset of an RT run
StatsDatasets ==
    { [kinds |-> {"ramses"}, cfg |-> HydroDefaults],
      [kinds |-> {"ramses", "ramses-rt"},
       cfg |-> [HydroDefaults EXCEPT !.nvar = 9, !.rt = TRUE, !.rtnvar = 4, !.ngroups = 1]] }

InitStats ==
    /\ ordering = "hilbert"
    /\ bbox = None
    /\ dspc = "parsed"
    /\ idxpc = "ready"
    /\ error = None
    /\ ncpu \in 1..MaxCpu
    /\ nlevelmax \in 1..MaxLevel
    /\ nboundary = 0
    /\ min_level \in 0..(nlevelmax - 1)
    /\ ndim \in 1..MaxDim
    /\ \E d \in StatsDatasets :
          /\ kinds = d.kinds
          /\ fieldcfg = d.cfg
          /\ cls_parameters = [k \in {"ramses", "ramses-rt"} |->
                                  IF k = "ramses" THEN d.cfg.nvar
                                  ELSE IF k \in d.kinds THEN d.cfg.rtnvar ELSE -1]
          /\ cls_field_list = [k \in {"ramses", "ramses-rt"} |->
                                  IF k = "ramses" THEN HydroDetectFields(d.cfg, d.cfg.rt)
                                  ELSE IF k \in d.kinds THEN RTDetectFields(d.cfg.ngroups)
                                  ELSE <<>>]
    /\ cpu_list = Range0(ncpu)
    /\ \E counts \in [1..ncpu -> [1..(nlevelmax - min_level) -> 0..MaxOct]] :
          /\ built = [k \in 1..ncpu |-> StatsReader(k, counts[k])]
          /\ stats = [NoStats EXCEPT !.pc = "new", !.counts = counts]
    /\ domains = built
    /\ idx_max_level = MaxOfLevels(domains)
    /\ num_grids = SumLocal(domains)
    /\ cur = NoDomain
    /\ ds_gamma = TRUE
    /\ files = {}
    /\ unreleased = {}
    /\ detectCalls = [k \in {"ramses", "ramses-rt"} |-> 0]
    /\ clsWriters = {}
    /\ HandlerIdle
    /\ fill = NoFill
    /\ chunk = NoChunk

NextStats ==
    \/ StatsBegin
    \/ LevelCountFirst
    \/ LevelCountMore
    \/ LevelCountReturn
    \/ InitializeLevelStats

SpecStats == InitStats /\ [][NextStats]_vars

\* the cells of the level with index li (level li - 1 + min_level) over all domains
RECURSIVE GlobalCount(_, _)
GlobalCount(li, d) ==
    IF d = 0 THEN 0 ELSE stats.counts[d][li] + GlobalCount(li, d - 1)

\* C15 (as claimed): the counts placed in level_stats are, for each level of the
\* index, the sum over the domains of the domain's cell count for the level, and
\* a domain's level_count is its per-level cell count whatever the number of its
\* field handlers.
C15_LevelStatsSumDomains ==
    /\ \A d \in DOMAIN stats.dom_level_count :
          stats.dom_level_count[d] = stats.counts[d]
    /\ stats.pc = "done" =>
          \A level \in 0..idx_max_level :
              stats.level_stats[level + min_level + 1] = GlobalCount(level + 1, Len(domains))

(***************************************************************************)
(* Specification SpecDetect: detect_fields over the sources of field names. *)
(***************************************************************************)
\* the names a user or a descriptor file may give
GivenNames == << "Density", "x-velocity", "Pressure" >>

\* what detect_fields may find: nvar in the header, a list from the user or not,
\* a descriptor file (with names, or old-style without) or none, an RT run or not
DetectConfigs ==
    { [HydroDefaults EXCEPT !.nvar = nvar, !.userGiven = ug,
                            !.user = SubSeq(GivenNames, 1, IF ug THEN nu ELSE 0),
                            !.descExists = de,
                            !.desc = SubSeq(GivenNames, 1, IF de THEN nd ELSE 0),
                            !.rt = rt] :
        nvar \in 1..MaxDetectNvar, ug \in BOOLEAN, nu \in 0..MaxNames,
        de \in BOOLEAN, nd \in 0..MaxNames, rt \in BOOLEAN }

InitDetect ==
    /\ ordering = "hilbert"
    /\ bbox = None
    /\ kinds = {"ramses"}
    /\ fieldcfg \in DetectConfigs
    /\ dspc = "parsed"
    /\ idxpc = "none"
    /\ error = None
    /\ ncpu = 1
    /\ nlevelmax = 1
    /\ nboundary = 0
    /\ min_level = 0
    /\ cpu_list = <<>>
    /\ built = <<>>
    /\ domains = <<>>
    /\ idx_max_level = -1
    /\ num_grids = -1
    /\ cur = NoDomain
    /\ cls_parameters = [k \in {"ramses", "ramses-rt"} |-> -1]
    /\ cls_field_list = [k \in {"ramses", "ramses-rt"} |-> <<>>]
    /\ ds_gamma = FALSE
    /\ files = {}
    /\ unreleased = {}
    /\ detectCalls = [k \in {"ramses", "ramses-rt"} |-> 0]
    /\ clsWriters = {}
    /\ OffIdle
    /\ fill = NoFill
    /\ chunk = NoChunk
    /\ stats = NoStats

NextDetect == DetectFieldsCall

SpecDetect == InitDetect /\ [][NextDetect]_vars

\* C18 (as claimed): after detect_fields has returned, whatever the source of
\* the names, the field list has exactly nvar entries, so that the 2^ndim x
\* len(field_list) records fill consumes per block are the 2^ndim x nvar records
\* the offset scan skips per block.
C18_FieldListHasNvarEntries ==
    (detectCalls["ramses"] >= 1 /\ error = None) =>
        Len(cls_field_list["ramses"]) = cls_parameters["ramses"]

=============================================================================
